---- MODULE Spec2Model ----
(***************************************************************************)
(* Tree store of the learning-tree client (src/store/useStore.ts), the     *)
(* page that loads and selects trees (src/lib/config.ts, Home) and the     *)
(* remote learning_trees table the store writes to.                        *)
(*                                                                         *)
(* A store mutation runs its synchronous part (snapshot, local update,     *)
(* start of the save) in one step and suspends at the await; the save      *)
(* settles in a later step (row overwritten and the operation done, or an  *)
(* error and the operation's rollback).  Nothing in the store serialises   *)
(* operations, so further operations and tree selections may run while     *)
(* saves are pending, and pending saves settle in any order.               *)
(***************************************************************************)
EXTENDS Integers, Sequences, FiniteSets, TLC

\* ------------------------------------------------------------------ bounds
MaxOps == 2          \* store operations invoked in one behaviour
MaxSelects == 1      \* tree selections made in one behaviour
\* in the tree view, the focus is changed while fewer operations than this
\* were invoked
MaxOpsBeforeFocus == 1
MaxSends == 2        \* chat messages sent in one behaviour

\* --------------------------------------------------------------- constants
Null == "<null>"             \* parentId: null / currentTreeId: null
Absent == "<undefined>"      \* description: undefined
NewNodeLabel == "new-node"   \* the label addNode gives a node
AddOffset == 50
GhostId == "ghost"           \* an id that names no node of any tree
TreeIds == {"T1", "T2"}
NewLabels == {"L1"}
NewDescriptions == {"", "d1"}
DragPositions == {[x |-> 10, y |-> 20]}

Node(id, label, parentId, x, y) ==
    [id |-> id, label |-> label, description |-> Absent,
     parentId |-> parentId, position |-> [x |-> x, y |-> y]]

\* the rows the remote table holds for the user at start-up: a chain
\* root - a - b and a root with the two children c and d.  Every tree made
\* by createEmptyTree names its root "root".
ChainTree == << Node("root", "L0", Null, 100, 100),
                Node("a", "L0", "root", 400, 100),
                Node("b", "L0", "a", 700, 100) >>
FanTree   == << Node("root", "L0", Null, 100, 100),
                Node("c", "L0", "root", 400, 100),
                Node("d", "L0", "root", 400, 300) >>
InitialRemote == [T1 |-> ChainTree, T2 |-> FanTree]

\* ------------------------------------------------------------------- state
VARIABLES
    nodes,          \* store.nodes
    currentTreeId,  \* store.currentTreeId
    trees,          \* Home's `trees` state: the rows fetched by loadTrees
    remote,         \* learning_trees.nodes, by tree id
    inflight,       \* saves whose awaiting operation has not resumed yet
    done,           \* history: the saves whose operation has resumed
    lastCall,       \* history: the latest store operation invoked
    opCount,        \* operations invoked so far
    idCount,        \* ids handed out by crypto.randomUUID so far
    selCount,       \* tree selections made so far
    focusedNodeId,  \* store.focusedNodeId
    breadcrumbPath, \* store.breadcrumbPath
    previousNodeStateRef,   \* LearningTree: signature of the last sync
    rfNodes,        \* LearningTree: React Flow's nodes state (id, position)
    resume,         \* drag handlers suspended at their first await
    lastView,       \* history: the latest step of the view
    trip,           \* history: the latest setNodes and what followed it
    selectedNode,   \* store.selectedNode, by id
    note,           \* NotesTab: the note state
    noteLoads,      \* NotesTab: nodes whose loadNote has not resolved yet
    debounceTimer,  \* NotesTab: the pending auto-save and what it captured
    noteRows,       \* node_notes.content, by node id ("" for no row)
    noteOwn,        \* history: the contents loaded for or typed under a node
    lastNoteUpsert, \* history: the latest upsert into node_notes
    messages,       \* AITutorTab: the messages state
    isLoading,      \* AITutorTab: a chat request is awaited
    chatLoads,      \* AITutorTab: nodes whose loadChatHistory is pending
    chatRequests,   \* AITutorTab: handleSend calls awaiting /chat
    chatRows,       \* node_chats.messages, by node id (<< >> for no row)
    lastChatUpsert, \* history: the latest upsert into node_chats
    sendCount       \* messages sent so far

\* the state of the side panel's tabs
notesVars == << note, noteLoads, debounceTimer, noteRows, noteOwn,
                lastNoteUpsert >>
chatVars == << messages, isLoading, chatLoads, chatRequests, chatRows,
               lastChatUpsert, sendCount >>
panelVars == << selectedNode, notesVars, chatVars >>

\* what the store operations and the page's tree loading leave alone
viewVars == << focusedNodeId, breadcrumbPath, previousNodeStateRef, rfNodes,
               resume, lastView, trip, panelVars >>

vars == << nodes, currentTreeId, trees, remote, inflight, done, lastCall,
           opCount, idCount, selCount, focusedNodeId, breadcrumbPath,
           previousNodeStateRef, rfNodes, resume, lastView, trip,
           panelVars >>

\* ------------------------------------------------------- array helpers
Ids(ns) == { ns[i].id : i \in 1..Len(ns) }

\* Array.prototype.find by id: index of the first match, 0 when none
FindIndex(ns, id) ==
    IF \E i \in 1..Len(ns) : ns[i].id = id
    THEN CHOOSE i \in 1..Len(ns) :
            /\ ns[i].id = id
            /\ \A j \in 1..(i - 1) : ns[j].id # id
    ELSE 0

randomUUID(k) == "n" \o ToString(k)

NoView == [kind |-> "none", id |-> Null, cause |-> "none", layout |-> FALSE,
           all |-> << >>, shown |-> << >>, path |-> << >>, hung |-> FALSE]

NoTrip == [x |-> << >>, tree |-> Null, phase |-> "none", n |-> 0,
           reloaded |-> FALSE]

NoCall == [op |-> "none", a1 |-> Null, a2 |-> Null, tree |-> Null,
           pre |-> << >>, post |-> << >>, outcome |-> "none", n |-> 0]

\* the notes and the chats the remote tables hold for the nodes of the first
\* tree at start-up: a has a note and a conversation, b a note, the root
\* neither.  A message is known by the node in whose conversation it was
\* written (of) and by who wrote it.
PanelNodeIds == {"root", "a", "b"}
Message(nodeId, role) == [of |-> nodeId, role |-> role]
InitialNotes == [root |-> "", a |-> "na", b |-> ""]
InitialChats == [root |-> << >>,
                 a |-> << Message("a", "assistant"), Message("a", "user"),
                          Message("a", "assistant") >>,
                 b |-> << >>]
NoUpsert == [node |-> Null, content |-> ""]
NoChatUpsert == [node |-> Null, messages |-> << >>]
NoTimer == [node |-> Null, content |-> ""]

\* the panel is closed and no node is selected
PanelInit ==
    /\ selectedNode = Null
    /\ note = ""
    /\ noteLoads = {}
    /\ debounceTimer = NoTimer
    /\ noteRows = InitialNotes
    /\ noteOwn = [n \in PanelNodeIds |-> {}]
    /\ lastNoteUpsert = NoUpsert
    /\ messages = << >>
    /\ isLoading = FALSE
    /\ chatLoads = {}
    /\ chatRequests = {}
    /\ chatRows = InitialChats
    /\ lastChatUpsert = NoChatUpsert
    /\ sendCount = 0

Init ==
    /\ nodes = << >>
    /\ currentTreeId = Null
    /\ trees = << >>
    /\ remote = InitialRemote
    /\ inflight = {}
    /\ done = {}
    /\ lastCall = NoCall
    /\ opCount = 0
    /\ idCount = 0
    /\ selCount = 0
    /\ focusedNodeId = Null
    /\ breadcrumbPath = << >>
    /\ previousNodeStateRef = {}
    /\ rfNodes = << >>
    /\ resume = {}
    /\ lastView = NoView
    /\ trip = NoTrip
    /\ PanelInit

\* ------------------------------------------------- the store's pure parts
\* A recursion of the source that never returns ends in a RangeError
\* (call stack exhausted); ovf marks it.  A walk that goes deeper than the
\* number of nodes has repeated a node and therefore never returns.
RECURSIVE findChildrenFrom(_, _, _, _)
\* variant: the direct children only, without the recursive call
findChildrenDirect(ns, parentId, fuel) ==
    LET kids == SelectSeq(ns, LAMBDA node : node.parentId = parentId)
    IN  [ovf |-> FALSE, ids |-> [i \in 1..Len(kids) |-> kids[i].id]]
findChildren(ns, parentId, fuel) ==
    IF fuel = 0 THEN [ovf |-> TRUE, ids |-> << >>]
    ELSE findChildrenFrom(ns, parentId, 1, fuel)
\* the forEach of findChildren, from array index i on
findChildrenFrom(ns, parentId, i, fuel) ==
    IF i > Len(ns) THEN [ovf |-> FALSE, ids |-> << >>]
    ELSE IF ns[i].parentId = parentId
         THEN LET sub  == findChildren(ns, ns[i].id, fuel - 1)
                  rest == IF sub.ovf THEN sub
                          ELSE findChildrenFrom(ns, parentId, i + 1, fuel)
              IN  IF sub.ovf \/ rest.ovf THEN [ovf |-> TRUE, ids |-> << >>]
                  ELSE [ovf |-> FALSE,
                        ids |-> << ns[i].id >> \o sub.ids \o rest.ids]
         ELSE findChildrenFrom(ns, parentId, i + 1, fuel)

\* "true", "false", or "overflow" when the ancestor walk never returns
RECURSIVE isAncestor(_, _, _, _)
isAncestor(ns, ancestorId, descendantId, fuel) ==
    LET i == FindIndex(ns, descendantId) IN
    IF fuel = 0 THEN "overflow"
    ELSE IF i = 0 \/ ns[i].parentId = Null THEN "false"
    ELSE IF ns[i].parentId = ancestorId THEN "true"
    ELSE isAncestor(ns, ancestorId, ns[i].parentId, fuel - 1)

Fuel(ns) == Len(ns) + 1

SeqToSet(s) == { s[i] : i \in 1..Len(s) }

\* variant: the new node is put on its parent's position
addNodeUpdatedOnParent(ns, parentId, newId) ==
    LET parentNode == ns[FindIndex(ns, parentId)] IN
    Append(ns, [id |-> newId, label |-> NewNodeLabel, description |-> Absent,
                parentId |-> parentId, position |-> parentNode.position])
addNodeUpdated(ns, parentId, newId) ==
    LET parentNode == ns[FindIndex(ns, parentId)] IN
    Append(ns, [id |-> newId, label |-> NewNodeLabel, description |-> Absent,
                parentId |-> parentId,
                position |-> [x |-> parentNode.position.x + AddOffset,
                              y |-> parentNode.position.y + AddOffset]])

deleteNodeUpdated(ns, nodeId) ==
    LET nodesToDelete ==
            {nodeId} \cup SeqToSet(findChildren(ns, nodeId, Fuel(ns)).ids)
    IN  SelectSeq(ns, LAMBDA node : node.id \notin nodesToDelete)

updateNodeLabelUpdated(ns, nodeId, newLabel) ==
    [i \in 1..Len(ns) |->
        IF ns[i].id = nodeId THEN [ns[i] EXCEPT !.label = newLabel]
        ELSE ns[i]]

\* variant: the description is stored as it was typed
descriptionAsTyped(newDescription) == newDescription
\* newDescription || undefined
descriptionOrUndefined(newDescription) ==
    IF newDescription = "" THEN Absent ELSE newDescription

updateNodeDescriptionUpdated(ns, nodeId, newDescription) ==
    [i \in 1..Len(ns) |->
        IF ns[i].id = nodeId
        THEN [ns[i] EXCEPT !.description = descriptionOrUndefined(newDescription)]
        ELSE ns[i]]

reparentNodeUpdated(ns, nodeId, newParentId) ==
    [i \in 1..Len(ns) |->
        IF ns[i].id = nodeId THEN [ns[i] EXCEPT !.parentId = newParentId]
        ELSE ns[i]]

\* variant: a drag that also takes the children of the node along
onNodeDragStopUpdatedWithChildren(ns, nodeId, position) ==
    [i \in 1..Len(ns) |->
        IF ns[i].id = nodeId \/ ns[i].parentId = nodeId
        THEN [ns[i] EXCEPT !.position = position]
        ELSE ns[i]]
onNodeDragStopUpdated(ns, nodeId, position) ==
    [i \in 1..Len(ns) |->
        IF ns[i].id = nodeId THEN [ns[i] EXCEPT !.position = position]
        ELSE ns[i]]

\* ------------------------------------------------ what the table stores
\* The update request carries JSON.stringify({ nodes }): a property whose
\* value is undefined is left out of the object, every other value of a
\* node (strings, null, finite numbers) is written as it is.
\* variant: a serialisation that leaves out every falsy description
stringifyNodeDroppingEmpty(node) ==
    IF node.description = Absent \/ node.description = ""
    THEN [id |-> node.id, label |-> node.label, parentId |-> node.parentId,
          position |-> node.position]
    ELSE node
stringifyNode(node) ==
    IF node.description = Absent
    THEN [id |-> node.id, label |-> node.label, parentId |-> node.parentId,
          position |-> node.position]
    ELSE node
\* a stored object read as a TreeNode ((row.nodes ?? []) as TreeNode[]):
\* a property the object does not have reads as undefined
parseNode(json) ==
    [id |-> json.id, label |-> json.label,
     description |-> IF "description" \in DOMAIN json THEN json.description
                     ELSE Absent,
     parentId |-> json.parentId, position |-> json.position]
\* the array a reader gets back from the row a payload was written to
storedRow(payload) ==
    [i \in 1..Len(payload) |-> parseNode(stringifyNode(payload[i]))]

\* variant: a save that leaves the root out of what it sends
saveWithoutRoot(treeId, storeNodes) ==
    [tree |-> treeId,
     payload |-> SelectSeq(storeNodes, LAMBDA node : node.parentId # Null)]
\* what saveTreeToSupabase sends: the store's whole array under the tree id
saveTreeToSupabase(treeId, storeNodes) ==
    [tree |-> treeId, payload |-> storeNodes]

\* variant: a catch block that restores nothing
RollbackNothing(req, storeNodes) == storeNodes
\* variant: a catch block that restores the snapshot only while the store
\* still holds what this operation put there
RollbackIfUntouched(req, storeNodes) ==
    IF storeNodes = req.payload THEN req.snapshot ELSE storeNodes
\* what the catch block of a mutation puts into the store: set({ nodes }),
\* nodes being the array read at the top of the operation, whatever the
\* store holds by now
Rollback(req, storeNodes) == req.snapshot

\* --------------------------------------------------- operation skeleton
\* ids an operation can be handed: the ids on screen and one stale id
ArgIds == Ids(nodes) \cup {GhostId}

CanCall == opCount < MaxOps

Record(op, a1, a2, post, outcome) ==
    [op |-> op, a1 |-> a1, a2 |-> a2, tree |-> currentTreeId,
     pre |-> nodes, post |-> post, outcome |-> outcome, n |-> opCount + 1]

\* the operation returns before touching the store (console.error; return)
\* or its promise rejects before the first set() (outcome "threw")
Abort(op, a1, a2, outcome) ==
    /\ lastCall' = Record(op, a1, a2, nodes, outcome)
    /\ opCount' = opCount + 1
    /\ UNCHANGED << nodes, currentTreeId, trees, remote, inflight, done,
                    selCount >>

\* set({ nodes: updatedNodes }); await get().saveTreeToSupabase()
\* tree, payload and snapshot are what the pending operation holds: the
\* request it sent and the array its catch block restores.  The other
\* fields are history: the store before and after the synchronous part,
\* whether anything else changed the store while the save was pending
\* (overlap), and the saves that were pending when this one started.
Commit(op, a1, a2, updatedNodes) ==
    LET req == saveTreeToSupabase(currentTreeId, updatedNodes) IN
    /\ nodes' = updatedNodes
    /\ inflight' =
          { [r EXCEPT !.overlap = TRUE] : r \in inflight } \cup
          { [n |-> opCount + 1, op |-> op, tree |-> req.tree,
             payload |-> req.payload, snapshot |-> nodes, status |-> "sent",
             pre |-> nodes, post |-> updatedNodes,
             overlap |-> (inflight # {}), during |-> { r.n : r \in inflight },
             outcome |-> "pending", r |-> 0] }
    /\ lastCall' = Record(op, a1, a2, updatedNodes, "pending")
    /\ opCount' = opCount + 1
    /\ UNCHANGED << currentTreeId, trees, remote, done, selCount >>

\* ------------------------------------------------------ store operations
addNode(parentId) ==
    /\ CanCall
    /\ IF currentTreeId = Null \/ FindIndex(nodes, parentId) = 0
       THEN /\ Abort("addNode", parentId, Null, "returned")
            /\ UNCHANGED idCount
       ELSE /\ Commit("addNode", parentId, Null,
                      addNodeUpdated(nodes, parentId, randomUUID(idCount + 1)))
            /\ idCount' = idCount + 1

deleteNode(nodeId) ==
    /\ CanCall
    /\ UNCHANGED idCount
    /\ IF currentTreeId = Null
       THEN Abort("deleteNode", nodeId, Null, "returned")
       ELSE IF findChildren(nodes, nodeId, Fuel(nodes)).ovf
       THEN Abort("deleteNode", nodeId, Null, "threw")
       ELSE Commit("deleteNode", nodeId, Null, deleteNodeUpdated(nodes, nodeId))

updateNodeLabel(nodeId, newLabel) ==
    /\ CanCall
    /\ UNCHANGED idCount
    /\ IF currentTreeId = Null
       THEN Abort("updateNodeLabel", nodeId, newLabel, "returned")
       ELSE Commit("updateNodeLabel", nodeId, newLabel,
                   updateNodeLabelUpdated(nodes, nodeId, newLabel))

updateNodeDescription(nodeId, newDescription) ==
    /\ CanCall
    /\ UNCHANGED idCount
    /\ IF currentTreeId = Null
       THEN Abort("updateNodeDescription", nodeId, newDescription, "returned")
       ELSE Commit("updateNodeDescription", nodeId, newDescription,
                   updateNodeDescriptionUpdated(nodes, nodeId, newDescription))

\* variant: a cycle rejection that rejects the promise instead of returning
reparentNodeThrowing(nodeId, newParentId) ==
    LET cyc == isAncestor(nodes, nodeId, newParentId, Fuel(nodes)) IN
    /\ CanCall
    /\ UNCHANGED idCount
    /\ IF currentTreeId = Null
       THEN Abort("reparentNode", nodeId, newParentId, "returned")
       ELSE IF cyc = "overflow" \/ cyc = "true"
       THEN Abort("reparentNode", nodeId, newParentId, "threw")
       ELSE Commit("reparentNode", nodeId, newParentId,
                   reparentNodeUpdated(nodes, nodeId, newParentId))

reparentNode(nodeId, newParentId) ==
    LET cyc == isAncestor(nodes, nodeId, newParentId, Fuel(nodes)) IN
    /\ CanCall
    /\ UNCHANGED idCount
    /\ IF currentTreeId = Null
       THEN Abort("reparentNode", nodeId, newParentId, "returned")
       ELSE IF cyc = "overflow"
       THEN Abort("reparentNode", nodeId, newParentId, "threw")
       ELSE IF cyc = "true"
       THEN Abort("reparentNode", nodeId, newParentId, "returned")
       ELSE Commit("reparentNode", nodeId, newParentId,
                   reparentNodeUpdated(nodes, nodeId, newParentId))

onNodeDragStop(nodeId, position) ==
    /\ CanCall
    /\ UNCHANGED idCount
    /\ IF currentTreeId = Null
       THEN Abort("onNodeDragStop", nodeId, position, "returned")
       ELSE Commit("onNodeDragStop", nodeId, position,
                   onNodeDragStopUpdated(nodes, nodeId, position))

\* ------------------------------------------- completion of a pending save
\* The promise of supabase...update({ nodes }).eq('id', currentTreeId)
\* settles.  Without an error the row's nodes column has been overwritten
\* wholesale by the payload and the operation ends with no further set();
\* with an error the row is as it was, saveTreeToSupabase throws and the
\* operation's catch block restores its snapshot and rethrows.
\* (status, outcome and r are history: how the save settled, how the
\* operation ended, and the position of the save among the settled ones.)
\* variant: a table that keeps the row of the save issued last
SaveSucceedsIfNewer(req) ==
    /\ req \in inflight
    /\ remote' = IF \E d \in done : d.status = "ok" /\ d.tree = req.tree
                                   /\ d.n > req.n
                 THEN remote
                 ELSE [remote EXCEPT ![req.tree] = storedRow(req.payload)]
    /\ inflight' = inflight \ {req}
    /\ done' = done \cup
               { [req EXCEPT !.status = "ok", !.outcome = "resolved",
                             !.r = Cardinality(done) + 1] }
    /\ UNCHANGED << nodes, currentTreeId, trees, lastCall, opCount, idCount,
                    selCount >>

SaveSucceeds(req) ==
    /\ req \in inflight
    /\ remote' = [remote EXCEPT ![req.tree] = storedRow(req.payload)]
    /\ inflight' = inflight \ {req}
    /\ done' = done \cup
               { [req EXCEPT !.status = "ok", !.outcome = "resolved",
                             !.r = Cardinality(done) + 1] }
    /\ UNCHANGED << nodes, currentTreeId, trees, lastCall, opCount, idCount,
                    selCount >>

\* variant: a catch block that sends the request again after the rollback
SaveFailsAndRetries(req) ==
    /\ req \in inflight
    /\ nodes' = Rollback(req, nodes)
    /\ inflight' = inflight
    /\ done' = done \cup
               { [req EXCEPT !.status = "err", !.outcome = "threw",
                             !.r = Cardinality(done) + 1] }
    /\ UNCHANGED << currentTreeId, trees, remote, lastCall, opCount, idCount,
                    selCount >>

SaveFails(req) ==
    /\ req \in inflight
    /\ nodes' = Rollback(req, nodes)
    /\ inflight' = inflight \ {req}
    /\ done' = done \cup
               { [req EXCEPT !.status = "err", !.outcome = "threw",
                             !.r = Cardinality(done) + 1] }
    /\ UNCHANGED << currentTreeId, trees, remote, lastCall, opCount, idCount,
                    selCount >>

\* -------------------------------------------------------------- the page
\* loadTrees, run when the user is known: fetch the user's rows, keep them
\* in `trees`, select the first one
loadTrees ==
    /\ trees = << >> /\ currentTreeId = Null
    /\ trees' = << [id |-> "T1", nodes |-> remote["T1"]],
                   [id |-> "T2", nodes |-> remote["T2"]] >>
    /\ currentTreeId' = "T1"
    /\ nodes' = remote["T1"]
    /\ UNCHANGED << remote, inflight, done, lastCall, opCount, idCount,
                    selCount >>

\* handleSelectTree(tree), tree being an element of `trees`
handleSelectTree(i) ==
    /\ selCount < MaxSelects
    /\ i \in 1..Len(trees)
    /\ currentTreeId' = trees[i].id
    /\ nodes' = trees[i].nodes
    /\ selCount' = selCount + 1
    /\ inflight' = { [r EXCEPT !.overlap = TRUE] : r \in inflight }
    /\ UNCHANGED << trees, remote, done, lastCall, opCount, idCount >>

\* ------------------------------------------- setNodes, save and reload
\* node arrays a caller hands to setNodes, which takes any array: none,
\* trees with an empty and a non-empty description, two roots
SetNodesArrays ==
    { << >>,
      << Node("root", "L0", Null, 100, 100),
         [Node("a", "L1", "root", 400, 100) EXCEPT !.description = ""] >>,
      << Node("root", "L0", Null, 100, 100),
         [Node("c", "L0", "root", 400, 100) EXCEPT !.description = "d1"],
         Node("e", "L0", "c", 700, 100) >>,
      << Node("root", "L0", Null, 100, 100),
         Node("r2", "L0", Null, 100, 300) >> }

\* store.setNodes(X): set({ nodes })
setNodes(X) ==
    /\ nodes' = X
    /\ inflight' = { [r EXCEPT !.overlap = TRUE] : r \in inflight }
    /\ trip' = [x |-> X, tree |-> currentTreeId, phase |-> "set", n |-> 0,
                reloaded |-> FALSE]
    /\ UNCHANGED << currentTreeId, trees, remote, done, lastCall, opCount,
                    idCount, selCount, focusedNodeId, breadcrumbPath,
                    previousNodeStateRef, rfNodes, resume, lastView,
                    panelVars >>

\* store.saveTreeToSupabase() called on its own: it logs and returns when
\* no tree is selected, else sends the store's array
callSaveTreeToSupabase ==
    /\ CanCall
    /\ IF currentTreeId = Null
       THEN Abort("saveTreeToSupabase", Null, Null, "returned")
       ELSE Commit("saveTreeToSupabase", Null, Null, nodes)
    /\ trip' = IF trip.phase = "set" /\ trip.x = nodes
                  /\ trip.tree = currentTreeId
               THEN [trip EXCEPT
                       !.phase = IF currentTreeId = Null THEN "skipped"
                                 ELSE "sent",
                       !.n = opCount + 1]
               ELSE trip
    /\ UNCHANGED << idCount, focusedNodeId, breadcrumbPath,
                    previousNodeStateRef, rfNodes, resume, lastView,
                    panelVars >>

\* the callers of saveTreeToSupabase that are not store mutations: they
\* hold no snapshot and only log a failure
StandaloneSaves == {"saveTreeToSupabase", "syncLayout", "handleAutoLayout"}

\* the request of a save called on its own fails: saveTreeToSupabase
\* throws, its caller has no snapshot to restore and the store stays
saveTreeToSupabaseRejected(req) ==
    /\ req \in inflight
    /\ req.op \in StandaloneSaves
    /\ inflight' = inflight \ {req}
    /\ done' = done \cup
               { [req EXCEPT !.status = "err", !.outcome = "threw",
                             !.r = Cardinality(done) + 1] }
    /\ UNCHANGED << nodes, currentTreeId, trees, remote, lastCall, opCount,
                    idCount, selCount >>

\* handleNewTree: the page deselects the tree; the store keeps its nodes
handleNewTree ==
    /\ currentTreeId # Null
    /\ currentTreeId' = Null
    /\ inflight' = { [r EXCEPT !.overlap = TRUE] : r \in inflight }
    /\ UNCHANGED << nodes, trees, remote, done, lastCall, opCount, idCount,
                    selCount >>

\* the browser reloads the page: store, page and view start again from
\* their initial state and loadTrees runs anew
Reload ==
    /\ inflight = {}
    /\ trees # << >>
    /\ nodes' = << >>
    /\ currentTreeId' = Null
    /\ trees' = << >>
    /\ selCount' = 0
    /\ focusedNodeId' = Null
    /\ breadcrumbPath' = << >>
    /\ previousNodeStateRef' = {}
    /\ rfNodes' = << >>
    /\ resume' = {}
    /\ trip' = IF trip.phase \in {"skipped", "sent"}
               THEN [trip EXCEPT !.reloaded = TRUE] ELSE trip
    /\ UNCHANGED << remote, inflight, done, lastCall, opCount, idCount,
                    lastView, panelVars >>

NextRoundTrip ==
    \/ loadTrees /\ UNCHANGED viewVars
    \/ \E i \in 1..Len(trees) : handleSelectTree(i) /\ UNCHANGED viewVars
    \/ handleNewTree /\ UNCHANGED viewVars
    \/ \E X \in SetNodesArrays : setNodes(X)
    \/ callSaveTreeToSupabase
    \/ \E req \in inflight : SaveSucceeds(req) /\ UNCHANGED viewVars
    \/ \E req \in inflight : saveTreeToSupabaseRejected(req) /\ UNCHANGED viewVars
    \/ Reload

SpecRoundTrip == Init /\ [][NextRoundTrip]_vars

\* ------------------------------------------------ the derived views
\* allNodes = storeNodes.length > 0 ? storeNodes : data.  The tree view is
\* mounted while the store holds nodes, so it reads the store's array.
allNodes == nodes

\* variant: the focused node with its whole subtree
getFocusedNodesWithSubtree(focusNodeId, all) ==
    LET i == FindIndex(all, focusNodeId) IN
    IF focusNodeId = Null \/ i = 0 THEN all
    ELSE LET sub == SeqToSet(findChildren(all, focusNodeId, Fuel(all)).ids)
         IN  << all[i] >> \o SelectSeq(all, LAMBDA n : n.id \in sub)
\* variant: nothing is shown when the focus id names no node
getFocusedNodesOrNothing(focusNodeId, all) ==
    LET i == FindIndex(all, focusNodeId) IN
    IF focusNodeId = Null THEN all
    ELSE IF i = 0 THEN << >>
    ELSE << all[i] >> \o SelectSeq(all, LAMBDA n : n.parentId = focusNodeId)
getFocusedNodes(focusNodeId, all) ==
    LET i == FindIndex(all, focusNodeId) IN
    IF focusNodeId = Null THEN all
    ELSE IF i = 0 THEN all
    ELSE << all[i] >> \o SelectSeq(all, LAMBDA n : n.parentId = focusNodeId)

\* index of the first node with parentId === null, 0 when there is none
FindRoot(all) ==
    IF \E i \in 1..Len(all) : all[i].parentId = Null
    THEN CHOOSE i \in 1..Len(all) :
            /\ all[i].parentId = Null
            /\ \A j \in 1..(i - 1) : all[j].parentId # Null
    ELSE 0

\* variant: a default view that shows every node
getDefaultFocusedNodesAll(all) == all
getDefaultFocusedNodes(all) ==
    LET r == FindRoot(all) IN
    IF Len(all) = 0 THEN << >>
    ELSE IF r = 0 THEN all
    ELSE << all[r] >> \o SelectSeq(all, LAMBDA n : n.parentId = all[r].id)

\* variant: the default view whenever the focus id names no node
effectiveDataDefaultOnUnresolved ==
    IF focusedNodeId # Null /\ FindIndex(allNodes, focusedNodeId) # 0
    THEN getFocusedNodes(focusedNodeId, allNodes)
    ELSE getDefaultFocusedNodes(allNodes)
effectiveData ==
    IF focusedNodeId # Null
    THEN getFocusedNodes(focusedNodeId, allNodes)
    ELSE getDefaultFocusedNodes(allNodes)

\* The while loop of calculateBreadcrumbPath, at node all[cur] with the
\* ancestors found so far.  The loop has no bound of its own: once it has
\* taken more parent steps than there are nodes it is on a cycle and goes
\* on for ever (hang), prepending to path.
RECURSIVE walkUp(_, _, _, _)
walkUp(all, cur, path, steps) ==
    LET p == IF cur = 0 THEN 0 ELSE FindIndex(all, all[cur].parentId) IN
    IF cur = 0 \/ all[cur].parentId = Null THEN [hang |-> FALSE, path |-> path]
    ELSE IF p = 0 THEN [hang |-> FALSE, path |-> path]
    ELSE IF steps = Len(all) THEN [hang |-> TRUE, path |-> path]
    ELSE walkUp(all, p, << all[p] >> \o path, steps + 1)

\* variant: the ancestors without the node itself
calculateBreadcrumbPathOfAncestors(nodeId, all) ==
    walkUp(all, FindIndex(all, nodeId), << >>, 0)
calculateBreadcrumbPath(nodeId, all) ==
    LET target == FindIndex(all, nodeId)
        walk == walkUp(all, target, << >>, 0)
    IN  IF walk.hang \/ target = 0 THEN walk
        ELSE [hang |-> FALSE, path |-> Append(walk.path, all[target])]

View(kind, id, cause, layout, path, hung) ==
    [kind |-> kind, id |-> id, cause |-> cause, layout |-> layout,
     all |-> nodes, shown |-> effectiveData, path |-> path, hung |-> hung]

\* the page no longer reacts: its thread is inside a loop that never ends
Frozen == lastView.hung

\* handleNodeFocus(nodeId): "root" clears the focus; any other id becomes
\* the focus and its breadcrumb path is computed and stored
handleNodeFocus(nodeId) ==
    LET walk == calculateBreadcrumbPath(nodeId, allNodes) IN
    /\ ~Frozen
    /\ IF nodeId = "root"
       THEN /\ focusedNodeId' = Null
            /\ breadcrumbPath' = << >>
            /\ lastView' = View("focus", nodeId, "user", FALSE, << >>, FALSE)
       ELSE /\ focusedNodeId' = nodeId
            /\ breadcrumbPath' = IF walk.hang THEN breadcrumbPath
                                 ELSE walk.path
            /\ lastView' = View("focus", nodeId, "user", FALSE, walk.path,
                                walk.hang)
    /\ UNCHANGED << nodes, currentTreeId, trees, remote, inflight, done,
                    lastCall, opCount, idCount, selCount,
                    previousNodeStateRef, rfNodes, resume, trip, panelVars >>

\* ids the view can hand to handleNodeFocus: a node on screen (double
\* click, child or parent navigation) or an entry of the breadcrumb bar
FocusIds == Ids(nodes) \cup Ids(breadcrumbPath)

\* variant: a card that deletes whatever node it shows
handleDeleteAnyNode(nodeId) ==
    /\ FindIndex(nodes, nodeId) # 0
    /\ deleteNode(nodeId)
\* handleDelete of a node card: the root's card does not delete
handleDelete(nodeId) ==
    /\ FindIndex(nodes, nodeId) # 0
    /\ nodes[FindIndex(nodes, nodeId)].parentId # Null
    /\ deleteNode(nodeId)

\* node arrays the store can hold when the view computes from them: the
\* two stored trees, a tree with branches below the root's children, and
\* arrays with a parent cycle, a self-parent (reparentNode(a, a)) and a
\* parentId that names no node
BranchTree == << Node("root", "L0", Null, 100, 100),
                Node("a", "L0", "root", 400, 100),
                Node("b", "L0", "a", 700, 100),
                Node("e", "L0", "b", 1000, 100),
                Node("c", "L0", "root", 400, 300) >>
CycleArray == << Node("root", "L0", Null, 100, 100),
                 Node("a", "L0", "b", 400, 100),
                 Node("b", "L0", "a", 700, 100) >>
SelfParentArray == << Node("root", "L0", Null, 100, 100),
                      Node("a", "L0", "a", 400, 100),
                      Node("b", "L0", "a", 700, 100) >>
DanglingArray == << Node("root", "L0", Null, 100, 100),
                    Node("a", "L0", GhostId, 400, 100) >>
FocusArrays == { ChainTree, FanTree, BranchTree, CycleArray, SelfParentArray,
                 DanglingArray }

\* the first tree is loaded and selected, holding one of the arrays
InitFocus ==
    \E X \in FocusArrays :
        /\ nodes = X
        /\ currentTreeId = "T1"
        /\ remote = [InitialRemote EXCEPT !["T1"] = X]
        /\ trees = << [id |-> "T1", nodes |-> X],
                      [id |-> "T2", nodes |-> InitialRemote["T2"]] >>
        /\ inflight = {}
        /\ done = {}
        /\ lastCall = NoCall
        /\ opCount = 0
        /\ idCount = 0
        /\ selCount = 0
        /\ focusedNodeId = Null
        /\ breadcrumbPath = << >>
        /\ previousNodeStateRef = {}
        /\ rfNodes = << >>
        /\ resume = {}
        /\ lastView = NoView
        /\ trip = NoTrip
        /\ PanelInit

NextFocus ==
    \/ \E id \in FocusIds : handleNodeFocus(id)
    \/ \E n \in Ids(effectiveData) :
          ~Frozen /\ handleDelete(n) /\ UNCHANGED viewVars
    \/ \E req \in inflight : ~Frozen /\ SaveSucceeds(req) /\ UNCHANGED viewVars
    \/ \E req \in inflight : ~Frozen /\ SaveFails(req) /\ UNCHANGED viewVars

SpecFocus == InitFocus /\ [][NextFocus]_vars

\* --------------------------------------------------------- the tree view
\* LearningTree: React Flow's copy of the displayed nodes, the effect that
\* synchronises it with effectiveData, auto-layout and the drag handler.
\* (The useMemo that computes initialNodes also lays out, when the number
\* of displayed nodes changed and some coordinate is 0; its result is only
\* the initial value of useNodesState, which the effect replaces on mount,
\* and it writes nothing to the store.)
nodeWidth == 80
nodeHeight == 80
nodesep == 100
ranksep == 300
margin == 50

\* a tree whose nodes have no positions yet, as /generate-tree returns it
GeneratedTree == << Node("root", "L0", Null, 0, 0),
                    Node("g1", "L0", "root", 0, 0),
                    Node("g2", "L0", "g1", 0, 0) >>
\* the rows of the user whose first tree has just been generated
ViewRemote == [T1 |-> GeneratedTree, T2 |-> ChainTree]
\* where a drag ends: on the spot the layout gives the root, or on the spot
\* it gives the root's first child; the two spots are clear of each other
ViewDragPositions ==
    {[x |-> margin, y |-> margin],
     [x |-> margin + nodeWidth + ranksep, y |-> margin]}
ViewDescriptions == {"d1"}

isNodeIntersecting(p1, p2) ==
    ~ ( \/ p1.x + nodeWidth < p2.x
        \/ p1.x > p2.x + nodeWidth
        \/ p1.y + nodeHeight < p2.y
        \/ p1.y > p2.y + nodeHeight )

\* effectiveData.every(item => item.position.x !== 0 && item.position.y !== 0)
hasPositions(view) ==
    \A i \in 1..Len(view) : view[i].position.x # 0 /\ view[i].position.y # 0

\* the React Flow node of an item; parentId stands for the edge into it
toFlowNodes(view) ==
    [i \in 1..Len(view) |->
        [id |-> view[i].id, parentId |-> view[i].parentId,
         position |-> view[i].position]]

\* the rank dagre gives a node: one more than its parent's.  An edge whose
\* source is not on screen adds that source to the graph, at rank 0.
RECURSIVE layoutRank(_, _, _)
layoutRank(flow, i, fuel) ==
    LET p == FindIndex(flow, flow[i].parentId) IN
    IF flow[i].parentId = Null THEN 0
    ELSE IF p = 0 THEN 1
    ELSE IF fuel = 0 THEN 0
    ELSE layoutRank(flow, p, fuel - 1) + 1

\* getLayoutedElements (dagre, rankdir LR): one column per rank, one row
\* per node of a rank, so that no two nodes get the same position
getLayoutedElements(flow) ==
    [i \in 1..Len(flow) |->
        LET rank == layoutRank(flow, i, Len(flow))
            row == Cardinality({ j \in 1..(i - 1) :
                                  layoutRank(flow, j, Len(flow)) = rank })
        IN  [flow[i] EXCEPT
               !.position = [x |-> margin + rank * (nodeWidth + ranksep),
                             y |-> margin + row * (nodeHeight + nodesep)]]]

\* variant: every synchronisation counts as stacked
allNodesStackedAlways(newNodes) == TRUE
\* uniquePositions.size === 1
allNodesStacked(newNodes) ==
    Cardinality({ newNodes[i].position : i \in 1..Len(newNodes) }) = 1

\* nodeStateSignature: id, parent, label and description of the displayed
\* nodes, sorted, positions left out
nodeStateSignature(view) ==
    { << view[i].id, view[i].parentId, view[i].label,
         IF view[i].description = Absent THEN "" ELSE view[i].description >> :
      i \in 1..Len(view) }

\* positions of a layout copied into the items whose id it contains
withPositions(items, flow) ==
    [i \in 1..Len(items) |->
        IF FindIndex(flow, items[i].id) # 0
        THEN [items[i] EXCEPT
                !.position = flow[FindIndex(flow, items[i].id)].position]
        ELSE items[i]]

\* useStore.getState().setNodes(updated);
\* useStore.getState().saveTreeToSupabase().catch(...)
\* as the explicit action does it, a call the user makes
setNodesAndSave(op, updated) ==
    IF currentTreeId = Null
    THEN /\ nodes' = updated
         /\ inflight' = { [r EXCEPT !.overlap = TRUE] : r \in inflight }
         /\ UNCHANGED << currentTreeId, trees, remote, done, lastCall,
                         opCount, selCount >>
    ELSE Commit(op, Null, Null, updated)

\* the same two calls made by the effect: no caller invoked anything, so
\* the request is numbered apart (-1, -2, ...) from the invoked operations
setNodesAndSaveOfEffect(op, updated) ==
    LET req == saveTreeToSupabase(currentTreeId, updated)
        k == Cardinality({ r \in inflight \cup done : r.n < 0 }) + 1
        flagged == { [r EXCEPT !.overlap = TRUE] : r \in inflight }
    IN  /\ nodes' = updated
        /\ inflight' =
              IF currentTreeId = Null THEN flagged
              ELSE flagged \cup
                   { [n |-> 0 - k, op |-> op, tree |-> req.tree,
                      payload |-> req.payload, snapshot |-> nodes,
                      status |-> "sent", pre |-> nodes, post |-> updated,
                      overlap |-> (inflight # {}),
                      during |-> { r.n : r \in inflight },
                      outcome |-> "pending", r |-> 0] }
        /\ UNCHANGED << currentTreeId, trees, remote, done, lastCall,
                        opCount, selCount >>

\* the view is mounted and what it displays differs in structure from
\* what the effect synchronised last
SyncPending ==
    /\ nodes # << >>
    /\ nodeStateSignature(effectiveData) # previousNodeStateRef

\* a drag handler whose onNodeDragStop call has settled
ResumeReady(c) == c.n \notin { r.n : r \in inflight }

\* effects and continuations run before the next event is handled
Idle ==
    /\ ~Frozen
    /\ ~SyncPending
    /\ \A c \in resume : ~ResumeReady(c)

\* useEffect(sync nodes), on a change of structure
syncNodes ==
    LET newNodes == toFlowNodes(effectiveData)
        stacked == allNodesStacked(newNodes) /\ Len(newNodes) > 1
        finalNodes == IF stacked THEN getLayoutedElements(newNodes)
                      ELSE newNodes
    IN  /\ ~Frozen
        /\ SyncPending
        /\ IF stacked
           THEN setNodesAndSaveOfEffect("syncLayout",
                   withPositions(effectiveData, finalNodes))
           ELSE UNCHANGED << nodes, currentTreeId, trees, remote, inflight,
                            done, lastCall, opCount, selCount >>
        /\ rfNodes' = finalNodes
        /\ previousNodeStateRef' = nodeStateSignature(effectiveData)
        /\ lastView' = View("sync", Null, lastView.kind, stacked, << >>, FALSE)
        /\ UNCHANGED << idCount, focusedNodeId, breadcrumbPath, resume, trip, panelVars >>

\* the view's part of a step that only calls the store or the page
Caused(kind) ==
    /\ lastView' = View(kind, Null, "none", FALSE, << >>, FALSE)
    /\ UNCHANGED << focusedNodeId, breadcrumbPath, previousNodeStateRef,
                    rfNodes, resume, trip, panelVars >>

\* handleAutoLayout: lays out the displayed nodes and writes their new
\* positions into the store's array, which keeps its other nodes
handleAutoLayout ==
    LET layouted == getLayoutedElements(rfNodes) IN
    /\ Idle
    /\ CanCall
    /\ rfNodes # << >>
    /\ setNodesAndSave("handleAutoLayout", withPositions(nodes, layouted))
    /\ rfNodes' = layouted
    /\ lastView' = View("autoLayout", Null, "user", TRUE, << >>, FALSE)
    /\ UNCHANGED << idCount, focusedNodeId, breadcrumbPath,
                    previousNodeStateRef, resume, trip, panelVars >>

\* handleLabelBlur of a node card: a new, non-empty label is saved
handleLabelBlur(nodeId, newLabel) ==
    /\ FindIndex(nodes, nodeId) # 0
    /\ nodes[FindIndex(nodes, nodeId)].label # newLabel
    /\ updateNodeLabel(nodeId, newLabel)

\* isDescendant of the drag handler: the store's ancestor walk, on the
\* store's array
isDescendant(ns, ancestorId, descendantId) ==
    isAncestor(ns, ancestorId, descendantId, Fuel(ns))

\* variant: the last overlapped node is taken
LastIntersecting(flow, nodeId, position) ==
    LET hit == { j \in 1..Len(flow) :
                   /\ flow[j].id # nodeId
                   /\ isNodeIntersecting(position, flow[j].position) }
    IN  IF hit = {} THEN 0
        ELSE CHOOSE j \in hit : \A k \in hit : j >= k
\* index of the first displayed node, other than the dragged one, that the
\* dragged node overlaps; 0 when there is none
FirstIntersecting(flow, nodeId, position) ==
    LET hit == { j \in 1..Len(flow) :
                   /\ flow[j].id # nodeId
                   /\ isNodeIntersecting(position, flow[j].position) }
    IN  IF hit = {} THEN 0
        ELSE CHOOSE j \in hit : \A k \in hit : j <= k

\* onNodeDragStop of the React Flow canvas, up to its first await: the
\* node is where the drag left it, the store is told the position, and
\* when the node lies on another one that is not its descendant the
\* handler goes on to reparent once the position is saved
handleNodeDragStop(nodeId, position) ==
    LET j == FirstIntersecting(rfNodes, nodeId, position)
        reparents == /\ j # 0
                     /\ isDescendant(nodes, nodeId, rfNodes[j].id) = "false"
    IN  /\ Idle
        /\ opCount + (IF reparents THEN 1 ELSE 0) < MaxOps
        /\ IF j = 0 THEN TRUE
           ELSE isDescendant(nodes, nodeId, rfNodes[j].id) # "overflow"
        /\ onNodeDragStop(nodeId, position)
        /\ rfNodes' = [i \in 1..Len(rfNodes) |->
                          IF rfNodes[i].id = nodeId
                          THEN [rfNodes[i] EXCEPT !.position = position]
                          ELSE rfNodes[i]]
        /\ resume' = IF reparents
                     THEN resume \cup { [n |-> opCount + 1, node |-> nodeId,
                                         target |-> rfNodes[j].id] }
                     ELSE resume
        /\ lastView' = View("drag", nodeId, "user", FALSE, << >>, FALSE)
        /\ UNCHANGED << focusedNodeId, breadcrumbPath, previousNodeStateRef,
                        trip, panelVars >>

\* the drag handler resumes after await onNodeDragStop(...): with the
\* position saved it calls reparentNode, with the save failed it ends
dragResume(c) ==
    /\ ~Frozen
    /\ c \in resume
    /\ ResumeReady(c)
    /\ resume' = resume \ {c}
    /\ IF \E d \in done : d.n = c.n /\ d.status = "err"
       THEN UNCHANGED << nodes, currentTreeId, trees, remote, inflight, done,
                        lastCall, opCount, idCount, selCount, lastView >>
       ELSE /\ reparentNode(c.node, c.target)
            /\ lastView' = View("edit", c.node, "none", FALSE, << >>, FALSE)
    /\ UNCHANGED << focusedNodeId, breadcrumbPath, previousNodeStateRef,
                    rfNodes, trip, panelVars >>

InitView ==
    /\ nodes = << >>
    /\ currentTreeId = Null
    /\ trees = << >>
    /\ remote = ViewRemote
    /\ inflight = {}
    /\ done = {}
    /\ lastCall = NoCall
    /\ opCount = 0
    /\ idCount = 0
    /\ selCount = 0
    /\ focusedNodeId = Null
    /\ breadcrumbPath = << >>
    /\ previousNodeStateRef = {}
    /\ rfNodes = << >>
    /\ resume = {}
    /\ lastView = NoView
    /\ trip = NoTrip
    /\ PanelInit

NextView ==
    \/ syncNodes
    \/ \E c \in resume : dragResume(c)
    \/ Idle /\ loadTrees /\ Caused("load")
    \/ \E id \in Ids(rfNodes) \cup Ids(breadcrumbPath) \cup {"root"} :
          Idle /\ opCount < MaxOpsBeforeFocus /\ handleNodeFocus(id)
    \/ handleAutoLayout
    \/ \E p \in Ids(rfNodes) : Idle /\ addNode(p) /\ Caused("edit")
    \/ \E n \in Ids(rfNodes) : Idle /\ handleDelete(n) /\ Caused("edit")
    \/ \E n \in Ids(rfNodes), l \in NewLabels :
          Idle /\ handleLabelBlur(n, l) /\ Caused("edit")
    \/ \E n \in Ids(rfNodes), d \in ViewDescriptions :
          Idle /\ updateNodeDescription(n, d) /\ Caused("edit")
    \/ \E n \in Ids(rfNodes), pos \in ViewDragPositions :
          handleNodeDragStop(n, pos)
    \/ \E req \in inflight : Idle /\ SaveSucceeds(req) /\ Caused("settle")
    \/ \E req \in inflight :
          Idle /\ req.op \notin StandaloneSaves /\ SaveFails(req)
          /\ Caused("settle")
    \/ \E req \in inflight :
          Idle /\ saveTreeToSupabaseRejected(req) /\ Caused("settle")

SpecView == InitView /\ [][NextView]_vars

\* ------------------------------------------------- drags onto crowded spots
\* a tree whose nodes lie close together; b, a child of a, stands before a
\* in the array, as it does once b was created first and reparented
CrowdedTree == << Node("root", "L0", Null, 50, 50),
                  Node("b", "L0", "a", 430, 100),
                  Node("a", "L0", "root", 430, 300),
                  Node("s", "L0", "root", 500, 160),
                  Node("c", "L0", "root", 50, 400) >>
DragRemote == [T1 |-> CrowdedTree, T2 |-> ChainTree]
\* where a drag ends: on b and s at once, or on a and s at once
DragSpots == {[x |-> 450, y |-> 120], [x |-> 480, y |-> 230]}

InitDrag ==
    /\ nodes = << >>
    /\ currentTreeId = Null
    /\ trees = << >>
    /\ remote = DragRemote
    /\ inflight = {}
    /\ done = {}
    /\ lastCall = NoCall
    /\ opCount = 0
    /\ idCount = 0
    /\ selCount = 0
    /\ focusedNodeId = Null
    /\ breadcrumbPath = << >>
    /\ previousNodeStateRef = {}
    /\ rfNodes = << >>
    /\ resume = {}
    /\ lastView = NoView
    /\ trip = NoTrip
    /\ PanelInit

NextDrag ==
    \/ syncNodes
    \/ \E c \in resume : dragResume(c)
    \/ Idle /\ loadTrees /\ Caused("load")
    \/ \E id \in Ids(rfNodes) \cup {"root"} :
          Idle /\ opCount < MaxOpsBeforeFocus /\ handleNodeFocus(id)
    \/ \E n \in Ids(rfNodes) : Idle /\ handleDelete(n) /\ Caused("edit")
    \/ \E n \in Ids(rfNodes), pos \in DragSpots :
          handleNodeDragStop(n, pos)
    \/ \E req \in inflight : Idle /\ SaveSucceeds(req) /\ Caused("settle")
    \/ \E req \in inflight : Idle /\ SaveFails(req) /\ Caused("settle")

SpecDrag == InitDrag /\ [][NextDrag]_vars

\* ------------------------------------------------------- the side panel
\* what the tabs of the side panel leave alone
treeVars == << nodes, currentTreeId, trees, remote, inflight, done, lastCall,
               opCount, idCount, selCount, focusedNodeId, breadcrumbPath,
               previousNodeStateRef, rfNodes, resume, lastView, trip >>

\* store.openPanel(nodeId): the node becomes the selected node
openPanel(nodeId) ==
    /\ FindIndex(nodes, nodeId) # 0
    /\ selectedNode' = nodeId

\* ---- NotesTab
\* what the user types into the note
NoteTexts == {"t1"}

\* another node is selected while the notes tab is shown.  Both effects
\* run with the new node and the note state as it is: the load effect
\* starts loadNote, the auto-save effect replaces the timer by one that
\* holds the new node's id and the note shown
selectNodeInNotes(nodeId) ==
    /\ currentTreeId # Null
    /\ nodeId # selectedNode
    /\ openPanel(nodeId)
    /\ noteLoads' = noteLoads \cup {nodeId}
    /\ debounceTimer' = [node |-> nodeId, content |-> note]
    /\ UNCHANGED << note, noteRows, noteOwn, lastNoteUpsert >>
    /\ UNCHANGED << treeVars, chatVars >>

\* loadNote of a node resolves: setNote(data.content) or setNote(''),
\* whatever node is selected by now; a changed note restarts the timer
loadNote(nodeId) ==
    LET content == noteRows[nodeId] IN
    /\ nodeId \in noteLoads
    /\ noteLoads' = noteLoads \ {nodeId}
    /\ note' = content
    /\ debounceTimer' = IF content # note
                        THEN [node |-> selectedNode, content |-> content]
                        ELSE debounceTimer
    /\ noteOwn' = [noteOwn EXCEPT ![nodeId] = @ \cup {content}]
    /\ UNCHANGED << selectedNode, noteRows, lastNoteUpsert >>
    /\ UNCHANGED << treeVars, chatVars >>

\* the user edits the note: setNote(e.target.value) restarts the timer
setNote(text) ==
    /\ selectedNode # Null
    /\ text # note
    /\ note' = text
    /\ debounceTimer' = [node |-> selectedNode, content |-> text]
    /\ noteOwn' = [noteOwn EXCEPT ![selectedNode] = @ \cup {text}]
    /\ UNCHANGED << selectedNode, noteLoads, noteRows, lastNoteUpsert >>
    /\ UNCHANGED << treeVars, chatVars >>

\* the timer fires one second after it was set: the upsert carries the
\* node id and the note the timer's closure holds
autoSave ==
    /\ debounceTimer.node # Null
    /\ noteRows' = [noteRows EXCEPT ![debounceTimer.node] =
                                       debounceTimer.content]
    /\ lastNoteUpsert' = [node |-> debounceTimer.node,
                          content |-> debounceTimer.content]
    /\ debounceTimer' = NoTimer
    /\ UNCHANGED << selectedNode, note, noteLoads, noteOwn >>
    /\ UNCHANGED << treeVars, chatVars >>

\* the timer fires and the upsert is refused
autoSaveRefused ==
    /\ debounceTimer.node # Null
    /\ debounceTimer' = NoTimer
    /\ UNCHANGED << selectedNode, note, noteLoads, noteRows, noteOwn,
                    lastNoteUpsert >>
    /\ UNCHANGED << treeVars, chatVars >>

NextNotes ==
    \/ loadTrees /\ UNCHANGED viewVars
    \/ \E n \in Ids(nodes) : selectNodeInNotes(n)
    \/ \E n \in noteLoads : loadNote(n)
    \/ \E t \in NoteTexts : setNote(t)
    \/ autoSave
    \/ autoSaveRefused

SpecNotes == Init /\ [][NextNotes]_vars

\* ---- AITutorTab
\* the opening message written for a node that has no conversation
Opening(nodeId) == << Message(nodeId, "assistant") >>

\* another node is selected while the chat tab is shown: the load effect
\* starts loadChatHistory; the messages shown stay until it resolves
selectNodeInChat(nodeId) ==
    /\ currentTreeId # Null
    /\ nodeId # selectedNode
    /\ openPanel(nodeId)
    /\ chatLoads' = chatLoads \cup {nodeId}
    /\ UNCHANGED << messages, isLoading, chatRequests, chatRows,
                    lastChatUpsert, sendCount >>
    /\ UNCHANGED << treeVars, notesVars >>

\* loadChatHistory of a node resolves: the stored messages or the opening
\* message are shown, whatever node is selected by now, and isLoading is
\* cleared
loadChatHistory(nodeId) ==
    /\ nodeId \in chatLoads
    /\ chatLoads' = chatLoads \ {nodeId}
    /\ messages' = IF chatRows[nodeId] # << >> THEN chatRows[nodeId]
                   ELSE Opening(nodeId)
    /\ isLoading' = FALSE
    /\ UNCHANGED << selectedNode, chatRequests, chatRows, lastChatUpsert,
                    sendCount >>
    /\ UNCHANGED << treeVars, notesVars >>

\* handleSend up to its first await: the user's message is appended to the
\* messages shown and sent to /chat with them
handleSend ==
    LET nextMessages == Append(messages, Message(selectedNode, "user")) IN
    /\ selectedNode # Null
    /\ currentTreeId # Null
    /\ ~isLoading
    /\ sendCount < MaxSends
    /\ messages' = nextMessages
    /\ isLoading' = TRUE
    /\ chatRequests' = chatRequests \cup
                       { [k |-> sendCount + 1, node |-> selectedNode,
                          nextMessages |-> nextMessages] }
    /\ sendCount' = sendCount + 1
    /\ UNCHANGED << selectedNode, chatLoads, chatRows, lastChatUpsert >>
    /\ UNCHANGED << treeVars, notesVars >>

\* /chat answers: handleSend shows the messages it sent plus the reply and
\* upserts them under the node it was started for
chatReplies(req) ==
    LET finalMessages ==
            Append(req.nextMessages, Message(req.node, "assistant")) IN
    /\ req \in chatRequests
    /\ chatRequests' = chatRequests \ {req}
    /\ messages' = finalMessages
    /\ chatRows' = [chatRows EXCEPT ![req.node] = finalMessages]
    /\ lastChatUpsert' = [node |-> req.node, messages |-> finalMessages]
    /\ isLoading' = FALSE
    /\ UNCHANGED << selectedNode, chatLoads, sendCount >>
    /\ UNCHANGED << treeVars, notesVars >>

\* /chat fails: an apology is appended to the messages shown by now and
\* nothing is stored
chatFails(req) ==
    /\ req \in chatRequests
    /\ chatRequests' = chatRequests \ {req}
    /\ messages' = Append(messages, Message(req.node, "assistant"))
    /\ isLoading' = FALSE
    /\ UNCHANGED << selectedNode, chatLoads, chatRows, lastChatUpsert,
                    sendCount >>
    /\ UNCHANGED << treeVars, notesVars >>

NextChat ==
    \/ loadTrees /\ UNCHANGED viewVars
    \/ \E n \in Ids(nodes) : selectNodeInChat(n)
    \/ \E n \in chatLoads : loadChatHistory(n)
    \/ handleSend
    \/ \E req \in chatRequests : chatReplies(req)
    \/ \E req \in chatRequests : chatFails(req)

SpecChat == Init /\ [][NextChat]_vars

\* the store and the page on their own: no tree view is mounted
Next ==
    \/ loadTrees /\ UNCHANGED viewVars
    \/ \E i \in 1..Len(trees) : handleSelectTree(i) /\ UNCHANGED viewVars
    \/ \E p \in ArgIds : addNode(p) /\ UNCHANGED viewVars
    \/ \E n \in ArgIds : deleteNode(n) /\ UNCHANGED viewVars
    \/ \E n \in ArgIds, l \in NewLabels :
          updateNodeLabel(n, l) /\ UNCHANGED viewVars
    \/ \E n \in ArgIds, d \in NewDescriptions :
          updateNodeDescription(n, d) /\ UNCHANGED viewVars
    \/ \E n \in ArgIds, p \in ArgIds :
          reparentNode(n, p) /\ UNCHANGED viewVars
    \/ \E n \in ArgIds, pos \in DragPositions :
          onNodeDragStop(n, pos) /\ UNCHANGED viewVars
    \/ \E req \in inflight : SaveSucceeds(req) /\ UNCHANGED viewVars
    \/ \E req \in inflight : SaveFails(req) /\ UNCHANGED viewVars

Spec == Init /\ [][Next]_vars

\* =================================================================== claims
\* What the claims speak of, defined on the node array alone.
Roots(ns) == { i \in 1..Len(ns) : ns[i].parentId = Null }
UniqueIds(ns) == \A i, j \in 1..Len(ns) : ns[i].id = ns[j].id => i = j
ParentsResolve(ns) ==
    \A i \in 1..Len(ns) : ns[i].parentId = Null \/ ns[i].parentId \in Ids(ns)
ChildrenOfSet(ns, S) == { ns[i].id : i \in { j \in 1..Len(ns) : ns[j].parentId \in S } }
RECURSIVE DescendantsUpTo(_, _, _)
DescendantsUpTo(ns, S, k) ==
    IF k = 0 THEN S
    ELSE DescendantsUpTo(ns, S \cup ChildrenOfSet(ns, S), k - 1)
\* the transitive descendants of id (id itself is among them only on a cycle)
Descendants(ns, id) == DescendantsUpTo(ns, ChildrenOfSet(ns, {id}), Len(ns))
Acyclic(ns) == \A i \in 1..Len(ns) : ns[i].id \notin Descendants(ns, ns[i].id)
\* the root's descendants are all the other nodes: every chain ends at the root
IsTree(ns) ==
    /\ UniqueIds(ns)
    /\ Cardinality(Roots(ns)) = 1
    /\ ParentsResolve(ns)
    /\ Acyclic(ns)
    /\ \A r \in Roots(ns) : Descendants(ns, ns[r].id) = Ids(ns) \ {ns[r].id}

Settled == inflight \cup done
\* a tree is loaded, at least one mutation went through, every save so far
\* succeeded and none is pending
OnlySuccessfulMutations ==
    /\ currentTreeId # Null
    /\ inflight = {}
    /\ done # {}
    /\ \A d \in done : d.status = "ok"

\* C1: after any sequence of store mutations whose remote writes succeeded,
\* exactly one node of the store's node set has parentId = null.
C1_ExactlyOneRoot ==
    OnlySuccessfulMutations => Cardinality(Roots(nodes)) = 1

\* C2: after any sequence of successful store mutations the parentId
\* relation has no cycle (no node is its own parent either) and every
\* non-null parentId names a node of the set.
C2_ParentRelationIsTree ==
    OnlySuccessfulMutations => (Acyclic(nodes) /\ ParentsResolve(nodes))

\* C3: on a tree, reparentNode(n, p) with p = n or p a transitive descendant
\* of n fails and leaves the node set unchanged.
C3_ReparentUnderSelfOrDescendantFails ==
    ( /\ lastCall.op = "reparentNode"
      /\ lastCall.tree # Null
      /\ IsTree(lastCall.pre)
      /\ lastCall.a1 \in Ids(lastCall.pre)
      /\ lastCall.a2 \in Ids(lastCall.pre)
      /\ \/ lastCall.a2 = lastCall.a1
         \/ lastCall.a2 \in Descendants(lastCall.pre, lastCall.a1) )
    => ( /\ lastCall.outcome # "pending"
         /\ lastCall.post = lastCall.pre )

\* C4: when the remote write of a mutation fails and nothing else ran in
\* between, the store's node set is again the one from immediately before
\* the operation, and the operation throws the error to its caller.
C4_FailedWriteRestoresPreState ==
    [][ \A req \in inflight :
          (SaveFails(req) /\ ~req.overlap)
          => ( /\ nodes' = req.pre
               /\ \E d \in done' : d.n = req.n /\ d.outcome = "threw" ) ]_vars

C4_Witness ==
    \E d \in done :
        /\ d.status = "err" /\ ~d.overlap /\ d.outcome = "threw"
        /\ d.r = Cardinality(done)
        /\ d.post # d.pre
        /\ nodes = d.pre

\* C5: deleteNode(n) on a tree removes exactly n and the transitive
\* descendants of n; the count drops by their number and every remaining
\* node is unchanged, in its place.
C5_DeleteRemovesExactlySubtree ==
    ( /\ lastCall.op = "deleteNode"
      /\ lastCall.tree # Null
      /\ IsTree(lastCall.pre)
      /\ lastCall.a1 \in Ids(lastCall.pre) )
    => LET gone == {lastCall.a1} \cup Descendants(lastCall.pre, lastCall.a1)
       IN  /\ lastCall.outcome = "pending"
           /\ lastCall.post =
                 SelectSeq(lastCall.pre, LAMBDA node : node.id \notin gone)
           /\ Len(lastCall.post) = Len(lastCall.pre) - Cardinality(gone)

C5_Witness ==
    /\ lastCall.op = "deleteNode"
    /\ IsTree(lastCall.pre)
    /\ lastCall.a1 \in Ids(lastCall.pre)
    /\ Descendants(lastCall.pre, lastCall.a1) # {}
    /\ Len(lastCall.post) >= 1
    /\ Len(lastCall.post) = Len(lastCall.pre) - 2
    /\ nodes = lastCall.post

\* C6: a store mutation invoked with no tree selected, or with an id that
\* names no node of the current set, is aborted: the node set is unchanged
\* and no remote write is issued.
Unresolved(call) ==
    \/ call.a1 \notin Ids(call.pre)
    \/ call.op = "reparentNode" /\ call.a2 \notin Ids(call.pre)
C6_UnresolvedReferenceAborts ==
    ( /\ lastCall.op # "none"
      /\ (lastCall.tree = Null \/ Unresolved(lastCall)) )
    => ( /\ lastCall.outcome = "returned"
         /\ lastCall.post = lastCall.pre
         /\ \A r \in Settled : r.n # lastCall.n )

\* C7: every remote write carries the store's complete node array at the
\* moment the save starts, under the active tree id; and when the write of
\* a mutation succeeds with nothing overlapping it, no further local change
\* is made and the remote row equals the store's node set.
C7_SaveSendsWholeStore ==
    [][ /\ \A r \in inflight' :
              r.n \notin { q.n : q \in inflight }
              => (r.payload = nodes' /\ r.tree = currentTreeId' /\ r.tree # Null)
        /\ \A req \in inflight :
              (SaveSucceeds(req) /\ ~req.overlap)
              => ( /\ nodes' = nodes
                   /\ req.tree = currentTreeId'
                   /\ remote'[req.tree] = nodes' ) ]_vars

C7_Witness ==
    \E d \in done :
        /\ d.status = "ok" /\ ~d.overlap
        /\ d.r = Cardinality(done)
        /\ d.post # d.pre
        /\ d.tree = currentTreeId
        /\ nodes = d.post
        /\ remote[d.tree] = nodes

\* C8: whenever a tree is selected, the node set placed in the store equals
\* the node array the remote store holds for that tree at that moment.
C8_SelectLoadsRemoteNodes ==
    [][ \A i \in 1..Len(trees) :
          handleSelectTree(i) => nodes' = remote[currentTreeId'] ]_vars

\* C9: B is issued while A's save is pending; B's save succeeds and A's
\* fails afterwards: A's rollback puts A's pre-mutation array back, which
\* has nothing of B's update, and leaves the remote row as B's save wrote
\* it (the witness is the interleaving the claim says is reachable).
C9_LoserRollbackErasesWinner ==
    [][ \A a \in inflight : \A b \in done :
          ( /\ SaveFails(a)
            /\ b.status = "ok" /\ b.n > a.n /\ a.n \in b.during
            /\ b.tree = a.tree )
          => (nodes' = a.pre /\ remote' = remote) ]_vars

C9_Witness ==
    \E a \in done, b \in done :
        /\ a.n < b.n /\ a.n \in b.during /\ a.tree = b.tree
        /\ b.status = "ok" /\ a.status = "err" /\ a.r = b.r + 1
        /\ a.r = Cardinality(done) /\ inflight = {}
        /\ b.post # b.pre
        /\ currentTreeId = a.tree
        /\ nodes = a.pre
        /\ remote[a.tree] = b.post
        /\ nodes # remote[a.tree]

\* C10: when the saves of overlapping mutations all succeed, the remote row
\* holds the array of the save the table applied last, whichever mutation
\* was issued first.
OkSaves(t) == { d \in done : d.status = "ok" /\ d.tree = t }
C10_LastAppliedSaveWins ==
    \A t \in TreeIds :
        \A d \in OkSaves(t) :
            (\A e \in OkSaves(t) : e.r <= d.r) => remote[t] = d.post

C10_Witness ==
    \E a \in done, b \in done :
        /\ a.n < b.n /\ a.n \in b.during /\ a.tree = b.tree
        /\ a.status = "ok" /\ b.status = "ok"
        /\ a.r > b.r
        /\ inflight = {}
        /\ a.post # b.post
        /\ remote[a.tree] = a.post
        /\ nodes = b.post

\* C12: for every valid tree and every node n at depth d, the breadcrumb
\* path of n is a sequence of exactly d+1 nodes whose first element is the
\* root, whose last element is n, and in which each element is the parent
\* of the next.
Ancestors(ns, id) == { a \in Ids(ns) : id \in Descendants(ns, a) }
IsRootToNodePath(path, ns, node) ==
    /\ Len(path) = Cardinality(Ancestors(ns, node.id)) + 1
    /\ path[1].parentId = Null
    /\ path[Len(path)] = node
    /\ \A k \in 1..(Len(path) - 1) : path[k + 1].parentId = path[k].id
    /\ SeqToSet(path) \subseteq SeqToSet(ns)
C12_BreadcrumbIsRootPath ==
    /\ IsTree(nodes)
       => \A i \in 1..Len(nodes) :
             LET walk == calculateBreadcrumbPath(nodes[i].id, nodes)
             IN  ~walk.hang /\ IsRootToNodePath(walk.path, nodes, nodes[i])
    /\ ( /\ lastView.kind = "focus"
         /\ lastView.id # "root"
         /\ IsTree(lastView.all)
         /\ lastView.id \in Ids(lastView.all) )
       => ( /\ ~lastView.hung
            /\ IsRootToNodePath(lastView.path, lastView.all,
                   lastView.all[FindIndex(lastView.all, lastView.id)]) )

C12_Witness ==
    /\ lastView.kind = "focus"
    /\ lastView.id = "e"
    /\ IsTree(lastView.all)
    /\ nodes = lastView.all
    /\ breadcrumbPath = lastView.path
    /\ Len(breadcrumbPath) = 4
    /\ breadcrumbPath[1].id = "root"
    /\ breadcrumbPath[4].id = "e"

\* C13: the breadcrumb ancestor walk terminates on every node array,
\* including one whose parentId links contain a cycle: it visits at most
\* |nodes| nodes and then stops rather than looping forever.
C13_WalkTerminates ==
    lastView.kind = "focus"
    => (~lastView.hung /\ Len(lastView.path) <= Len(lastView.all))

\* C14: when the focus id f names a node of the set, the focused view is
\* exactly f and the nodes whose parentId = f (1 + |direct children of f|
\* nodes), and no deeper descendant or other node.
DirectChildren(ns, f) == { i \in 1..Len(ns) : ns[i].parentId = f }
FocusResolves == focusedNodeId # Null /\ focusedNodeId \in Ids(nodes)
C15_DefaultViewIsRootPlusChildren ==
    (focusedNodeId = Null /\ IsTree(nodes))
    => \A r \in Roots(nodes) :
          /\ Len(effectiveData) =
                1 + Cardinality(DirectChildren(nodes, nodes[r].id))
          /\ effectiveData[1] = nodes[r]
          /\ \A k \in 2..Len(effectiveData) :
                effectiveData[k].parentId = nodes[r].id
          /\ \A i \in DirectChildren(nodes, nodes[r].id) :
                nodes[i] \in SeqToSet(Tail(effectiveData))
          /\ SeqToSet(effectiveData) \subseteq SeqToSet(nodes)

C15_Witness ==
    /\ focusedNodeId = Null
    /\ lastView.kind = "focus"
    /\ lastView.id = "root"
    /\ IsTree(nodes)
    /\ Ids(effectiveData) = {"root", "a", "c"}
    /\ Len(nodes) = 5

\* C16: when the focus id is set but names no node of the set (for example
\* after the focused node was deleted), the focused view is the full node
\* set unchanged.
FocusUnresolved == focusedNodeId # Null /\ focusedNodeId \notin Ids(nodes)
C16_UnresolvedFocusShowsEverything ==
    FocusUnresolved => effectiveData = nodes

C16_Witness ==
    /\ FocusUnresolved
    /\ lastCall.op = "deleteNode"
    /\ lastCall.a1 = focusedNodeId
    /\ focusedNodeId \in Ids(lastCall.pre)
    /\ nodes = lastCall.post
    /\ Len(nodes) >= 2
    /\ effectiveData = nodes

\* C17 (as claimed): whenever the focus id does not resolve to a node of
\* the set, the focused view is the default view, i.e. the root plus the
\* root's direct children.
C17_UnresolvedFocusShowsDefault ==
    FocusUnresolved => effectiveData = getDefaultFocusedNodes(nodes)

\* C17 (amended): whenever the focus id does not resolve to a node of the
\* set, the focused view is the full node set; it has the nodes of the
\* default view only when no node lies below the root's children.
NoNodeBelowChildren(ns) ==
    \/ Roots(ns) = {}
    \/ \A i \in 1..Len(ns) :
          \/ i = FindRoot(ns)
          \/ ns[i].parentId = ns[FindRoot(ns)].id
C17_UnresolvedFocusShowsAll ==
    FocusUnresolved
    => ( /\ effectiveData = allNodes
         /\ SeqToSet(effectiveData) = SeqToSet(getDefaultFocusedNodes(nodes))
            <=> NoNodeBelowChildren(nodes) )

C17_Witness ==
    /\ FocusUnresolved
    /\ focusedNodeId = "c"
    /\ IsTree(nodes)
    /\ Ids(effectiveData) = {"root", "a", "b", "e"}
    /\ Ids(getDefaultFocusedNodes(nodes)) = {"root", "a"}

\* C18 (as claimed): a reparentNode call rejected because it would create a
\* circular reference raises an error to its caller, whereas the "no tree
\* selected" and "parent not found" rejections complete without raising.
WouldCreateCycle(call) ==
    /\ call.op = "reparentNode"
    /\ call.tree # Null
    /\ IsTree(call.pre)
    /\ call.a1 \in Ids(call.pre)
    /\ call.a2 \in Descendants(call.pre, call.a1)
NoTreeOrNoParent(call) ==
    /\ call.op = "addNode"
    /\ (call.tree = Null \/ call.a1 \notin Ids(call.pre))
C18_CycleRejectionRaises ==
    /\ WouldCreateCycle(lastCall) => lastCall.outcome = "threw"
    /\ NoTreeOrNoParent(lastCall) => lastCall.outcome = "returned"

\* C18 (amended): a reparentNode call rejected because it would create a
\* circular reference completes normally, without raising, exactly like the
\* "no tree selected" and "parent not found" rejections: the node set is
\* unchanged and no remote write is issued.
C18_RejectionsCompleteNormally ==
    (WouldCreateCycle(lastCall) \/ NoTreeOrNoParent(lastCall))
    => ( /\ lastCall.outcome = "returned"
         /\ lastCall.post = lastCall.pre
         /\ \A r \in Settled : r.n # lastCall.n )

C18_Witness ==
    /\ WouldCreateCycle(lastCall)
    /\ lastCall.a2 # lastCall.a1
    /\ lastCall.outcome = "returned"
    /\ nodes = lastCall.pre
    /\ Settled = {}

\* what the effect found on screen when it ran: two or more nodes, all at
\* one position
PositionsOf(items) == { items[i].position : i \in 1..Len(items) }
FoundStacked(view) ==
    Len(view.shown) > 1 /\ Cardinality(PositionsOf(view.shown)) = 1
LayoutSaves == { r \in inflight \cup done : r.op = "syncLayout" }

Updated(op) ==
    /\ lastCall.op = op
    /\ lastCall.tree # Null
    /\ lastCall.outcome \notin {"returned", "threw"}
    /\ Len(lastCall.post) = Len(lastCall.pre)
TargetsOf(call) ==
    { i \in 1..Len(call.pre) : call.pre[i].id = call.a1 }

\* C21: updateNodeDescription(n, s) stores s as the description of n when
\* s is not empty and stores the description as absent when s is the empty
\* string; no node of the store or of a stored row ever has the empty
\* string as its description.
C21_EmptyDescriptionStoredAbsent ==
    /\ lastCall.op = "updateNodeDescription" /\ lastCall.tree # Null
       => ( /\ Len(lastCall.post) = Len(lastCall.pre)
            /\ \A i \in TargetsOf(lastCall) :
                  /\ lastCall.a2 # "" => lastCall.post[i].description = lastCall.a2
                  /\ lastCall.a2 = "" => lastCall.post[i].description = Absent )
    /\ \A i \in 1..Len(nodes) : nodes[i].description # ""
    /\ \A t \in TreeIds : \A i \in 1..Len(remote[t]) :
          remote[t][i].description # ""

C21_Witness ==
    /\ lastCall.op = "updateNodeDescription"
    /\ lastCall.a2 = ""
    /\ \E i \in TargetsOf(lastCall) :
          /\ lastCall.pre[i].description = "d1"
          /\ lastCall.post[i].description = Absent
          /\ nodes = lastCall.post

\* C22: an addNode(p) that passes its guards appends exactly one node: its
\* id is none of the ids there were, its parentId is p, its position is that
\* of p plus (50, 50), its description is absent; the nodes there were are
\* unchanged and keep their places.
C22_AddNodeAppendsOneNode ==
    (lastCall.op = "addNode" /\ lastCall.outcome \notin {"returned", "threw"})
    => LET pre == lastCall.pre
           post == lastCall.post
           new == post[Len(post)]
           parent == pre[FindIndex(pre, lastCall.a1)]
       IN  /\ FindIndex(pre, lastCall.a1) # 0
           /\ Len(post) = Len(pre) + 1
           /\ SubSeq(post, 1, Len(pre)) = pre
           /\ new.id \notin Ids(pre)
           /\ new.parentId = lastCall.a1
           /\ new.position = [x |-> parent.position.x + 50,
                              y |-> parent.position.y + 50]
           /\ new.description = Absent
           /\ new.label = NewNodeLabel

C22_Witness ==
    /\ lastCall.op = "addNode"
    /\ lastCall.outcome \notin {"returned", "threw"}
    /\ lastCall.a1 # "root"
    /\ Len(lastCall.post) = Len(lastCall.pre) + 1
    /\ \E d \in done : d.n = lastCall.n /\ d.status = "ok"
    /\ nodes = lastCall.post

\* C23: updateNodeLabel(n, l) changes the label of n and nothing else,
\* updateNodeDescription(n, s) the description of n and nothing else,
\* onNodeDragStop(n, pos) the position of n and nothing else: the array
\* keeps its length and order, every other node is as it was, and n keeps
\* its id, its parentId and its other fields.
OnlyFieldChanged(call, field) ==
    /\ Len(call.post) = Len(call.pre)
    /\ \A i \in 1..Len(call.pre) :
          IF call.pre[i].id = call.a1
          THEN \A f \in DOMAIN call.pre[i] \ {field} :
                  call.post[i][f] = call.pre[i][f]
          ELSE call.post[i] = call.pre[i]
C23_UpdatesChangeOneField ==
    /\ Updated("updateNodeLabel")
       => ( /\ OnlyFieldChanged(lastCall, "label")
            /\ \A i \in TargetsOf(lastCall) :
                  lastCall.post[i].label = lastCall.a2 )
    /\ Updated("updateNodeDescription")
       => OnlyFieldChanged(lastCall, "description")
    /\ Updated("onNodeDragStop")
       => ( /\ OnlyFieldChanged(lastCall, "position")
            /\ \A i \in TargetsOf(lastCall) :
                  lastCall.post[i].position = lastCall.a2 )

C23_Witness ==
    /\ Updated("onNodeDragStop")
    /\ \E i \in TargetsOf(lastCall) :
          /\ lastCall.post[i].position # lastCall.pre[i].position
          /\ \E j \in 1..Len(lastCall.pre) :
                lastCall.pre[j].parentId = lastCall.a1
    /\ nodes = lastCall.post

\* two cards of 80 by 80 overlap or touch
Overlaps(p, q) ==
    /\ p.x <= q.x + 80 /\ q.x <= p.x + 80
    /\ p.y <= q.y + 80 /\ q.y <= p.y + 80
OverlappedBy(n, pos) ==
    { j \in 1..Len(rfNodes) :
        rfNodes[j].id # n /\ Overlaps(pos, rfNodes[j].position) }
\* what the handler decides when node n is dropped at pos: the position is
\* sent to the store, and a reparent is planned only to the first
\* overlapped node, and only when that node is no descendant of n
DragDecision(n, pos) ==
    LET hits == OverlappedBy(n, pos)
        first == CHOOSE j \in hits : \A k \in hits : j <= k
        planned == resume' \ resume
    IN  /\ lastCall'.op = "onNodeDragStop"
        /\ lastCall'.a1 = n
        /\ lastCall'.a2 = pos
        /\ hits = {} => planned = {}
        /\ hits # {}
           => IF rfNodes[first].id \in Descendants(nodes, n)
              THEN planned = {}
              ELSE planned = { [n |-> lastCall'.n, node |-> n,
                                target |-> rfNodes[first].id] }
PositionSaveFailed(c) == \E d \in done : d.n = c.n /\ d.status = "err"
ReparentCalled(c) ==
    /\ lastCall'.op = "reparentNode"
    /\ lastCall'.a1 = c.node
    /\ lastCall'.a2 = c.target
    /\ lastCall'.n = opCount + 1

\* C24 as stated: on drag stop the first overlapped node is the only
\* candidate, and when it is no descendant of the dragged node the position
\* update is followed by reparentNode to it.
C24_DropIsFollowedByReparent ==
    [][ /\ \A n \in Ids(rfNodes), pos \in DragSpots :
              handleNodeDragStop(n, pos) => DragDecision(n, pos)
        /\ \A c \in resume : dragResume(c) => ReparentCalled(c) ]_vars

\* C24: on drag stop the first overlapped node in the order of the
\* displayed nodes is the only candidate for the new parent.  When it is a
\* descendant of the dragged node only the position is updated, whatever
\* else is overlapped; when it is not, the position update is followed by
\* reparentNode to it once the position is saved, and by nothing when the
\* save of the position fails.
C24_DropReparentsToFirstOverlapOnceSaved ==
    [][ /\ \A n \in Ids(rfNodes), pos \in DragSpots :
              handleNodeDragStop(n, pos) => DragDecision(n, pos)
        /\ \A c \in resume :
              dragResume(c)
              => IF PositionSaveFailed(c)
                 THEN /\ lastCall' = lastCall
                      /\ nodes' = nodes
                      /\ inflight' = inflight
                 ELSE ReparentCalled(c)
        /\ lastCall'.op = "reparentNode" /\ lastCall' # lastCall
           => \E c \in resume : dragResume(c) ]_vars

\* c was dropped on a and s at once and is now a child of a, the first of
\* the two
C24_Witness ==
    /\ lastCall.op = "reparentNode"
    /\ lastCall.outcome \notin {"returned", "threw"}
    /\ \E i, j, k \in 1..Len(nodes) :
          /\ nodes[k].id = lastCall.a1
          /\ i < j /\ i # k /\ j # k
          /\ Overlaps(nodes[k].position, nodes[i].position)
          /\ Overlaps(nodes[k].position, nodes[j].position)
          /\ nodes[i].id = lastCall.a2
          /\ nodes[k].parentId = nodes[i].id
          /\ lastCall.pre[k].parentId # nodes[i].id

\* C25: the tree view never calls deleteNode on a node whose parentId is
\* null: every deleteNode it has called named a node of the store that has
\* a parent id, and the root the view was loaded with is still there.
C25_ViewNeverDeletesRoot ==
    /\ lastCall.op = "deleteNode"
       => ( /\ TargetsOf(lastCall) # {}
            /\ \A i \in TargetsOf(lastCall) :
                  lastCall.pre[i].parentId # Null )
    /\ \A r \in Settled :
          r.op = "deleteNode"
          => { i \in 1..Len(r.pre) : r.pre[i].parentId = Null }
             = { i \in 1..Len(r.post) : r.post[i].parentId = Null }

C25_Witness ==
    /\ lastCall.op = "deleteNode"
    /\ Len(lastCall.post) < Len(lastCall.pre)
    /\ \E i \in 1..Len(nodes) : nodes[i].parentId = Null
    /\ \E i \in 1..Len(rfNodes) : rfNodes[i].parentId = Null
    /\ nodes = lastCall.post

\* what the breadcrumb bar prints of a path: the ids and the labels
Printed(path) ==
    [i \in 1..Len(path) |-> [id |-> path[i].id, label |-> path[i].label]]

\* C26: whenever a focus is set and every save has settled, the stored
\* breadcrumb path prints as the path from the root to the focused node in
\* the node set the store holds now.
C26_BreadcrumbFollowsTree ==
    (focusedNodeId # Null /\ inflight = {} /\ Idle)
    => Printed(breadcrumbPath)
       = Printed(calculateBreadcrumbPath(focusedNodeId, nodes).path)

\* the parts of a node that a layout has no business with
StructureOf(ns) ==
    [i \in 1..Len(ns) |->
        [id |-> ns[i].id, parentId |-> ns[i].parentId, label |-> ns[i].label,
         description |-> ns[i].description]]
LayoutWrites ==
    { r \in inflight \cup done : r.op \in {"syncLayout", "handleAutoLayout"} }

\* C27: a layout, by the effect or by the explicit action, changes positions
\* only: the store holds the same nodes with the same parent ids, labels
\* and descriptions before and after it, the nodes that are not displayed
\* included.
C27_LayoutChangesOnlyPositions ==
    \A r \in LayoutWrites : StructureOf(r.post) = StructureOf(r.pre)

\* the ids that only the rows of the other trees had at start-up
IdsOfOtherTrees(t) ==
    UNION { Ids(InitialRemote[u]) : u \in TreeIds \ {t} }
    \ Ids(InitialRemote[t])

\* C28: no sequence of tree selections, mutations and rollbacks makes a
\* remote write that puts the nodes of one tree into the row of another.
C28_NoTreeStoredInAnothersRow ==
    \A t \in TreeIds : Ids(remote[t]) \cap IdsOfOtherTrees(t) = {}

\* C29: the content of every upsert into node_notes for a node is content
\* that was loaded for that node or typed while that node was selected.
C29_NoteSavedUnderItsOwnNode ==
    lastNoteUpsert.node # Null
    => lastNoteUpsert.content \in noteOwn[lastNoteUpsert.node]

\* C30: the messages of every upsert into node_chats for a node are
\* messages of that node's conversation.
C30_ChatSavedUnderItsOwnNode ==
    lastChatUpsert.node # Null
    => \A i \in 1..Len(lastChatUpsert.messages) :
          lastChatUpsert.messages[i].of = lastChatUpsert.node

\* C20: each mutation invocation issues at most one remote write, and
\* after a failed write nothing is written again until the caller invokes
\* another operation: a request appears only in the step that invokes an
\* operation, one per invocation, and the step in which a write fails
\* leaves no request of that invocation pending.
RequestNumbers(S) == { r.n : r \in S }
C20_NoAutomaticRetry ==
    [][ /\ \A r \in inflight' :
              r.n \notin RequestNumbers(inflight)
              => ( /\ opCount' = opCount + 1
                   /\ r.n = opCount'
                   /\ r.n \notin RequestNumbers(done) )
        /\ Cardinality(RequestNumbers(inflight') \ RequestNumbers(inflight)) <= 1
        /\ \A r1, r2 \in inflight' : r1.n = r2.n => r1 = r2
        /\ \A req \in inflight :
              SaveFails(req)
              => ( /\ req.n \notin RequestNumbers(inflight')
                   /\ RequestNumbers(inflight') \subseteq RequestNumbers(inflight)
                   /\ remote' = remote ) ]_vars

C20_Witness ==
    \E d \in done :
        /\ d.status = "err"
        /\ d.r = Cardinality(done)
        /\ d.n = opCount
        /\ inflight = {}
        /\ \A e \in done : e.n = d.n => e = d

\* C11 (as claimed): for every node array X and every store state,
\* setNodes(X) followed by saveTreeToSupabase() and a reload of the tree
\* yields a node set structurally equal to X.
TripSave == { d \in done : d.n = trip.n /\ trip.phase = "sent" }
\* the trip's request was not refused and no later write replaced its row
TripNotOverwritten ==
    \A d \in TripSave :
        /\ d.status = "ok"
        /\ \A e \in done : (e.status = "ok" /\ e.tree = d.tree) => e.r <= d.r
Reloaded ==
    /\ trip.reloaded
    /\ trees # << >>
    /\ inflight = {}
====
